---- MODULE Spec2Model ----
\* Model of src/script.py: EmailMonitor (initialization and run cycles) driving
\* EmailFetcher (IMAP session) and WebhookSender.  Every I/O call of a cycle is
\* one step; its outcome (success, failure status, exception) is chosen by the
\* environment.
EXTENDS Integers, Sequences, FiniteSets, TLC

\* ---------------------------------------------------------------- bounds
MaxId == 4      \* message ids are 1..MaxId
MaxLen == 3     \* longest listing the server returns
MaxRuns == 2    \* number of run() calls on the monitor
MaxCalls == 4   \* calls made on an EmailFetcher used on its own
MaxParts == 2   \* sub-parts of a multi-part message

Ids == 1..MaxId

Range(s) == {s[k] : k \in 1..Len(s)}

\* What the server can answer to SEARCH SINCE: distinct message numbers, in
\* any order (the code does not sort them).
Listings ==
    {s \in UNION {[1..n -> Ids] : n \in 0..MaxLen} :
        \A a, b \in 1..Len(s) : a # b => s[a] # s[b]}

\* Python max() over a non-empty list of ints.
RECURSIVE SeqMax(_)
SeqMax(s) ==
    IF Len(s) = 1 THEN s[1]
    ELSE LET m == SeqMax(Tail(s)) IN IF s[1] > m THEN s[1] ELSE m

ZeroCount == [e \in Ids |-> 0]

VARIABLES
    pc,                 \* position of the monitor's control flow
    last_processed_id,  \* EmailMonitor.last_processed_id
    mail,               \* EmailFetcher.mail: "None", "open" or "closed" session object
    open,               \* number of IMAP sessions opened and not yet logged out
    ids,                \* the listing of the current (or last) cycle
    i,                  \* index into ids of the element the for loop is at
    latest_id,          \* local latest_id of run()
    runs,               \* number of run() calls started
    preMark,            \* last_processed_id at the start of the current run()
    fetchedRun,         \* per id: fetch_email calls in the current run()
    sentRun,            \* per id: sender.send calls in the current run()
    failedSend,         \* ids whose send returned False in the current run()
    delivered,          \* per id: sends answered by the webhook, whole process
    due,                \* ids a run() listed above its mark and then committed
    outcome,            \* how the last cycle ended: "none", "ok", "logged", "raised"
    failedAt,           \* the call that raised in the last cycle, or "none"
    log,                \* fetch and send calls of the current run(), in order
    listed,             \* every id a listing has returned so far
    gaveUp,             \* ids whose send returned False in a run() that committed
    config,             \* the Config attributes that are set (not None)
    calls,              \* calls made on an EmailFetcher used on its own
    msg,                \* the message handed to extract_details
    body                \* the body extract_details returned for msg

vars == <<pc, last_processed_id, mail, open, ids, i, latest_id, runs, preMark,
          fetchedRun, sentRun, failedSend, delivered, due, outcome, failedAt,
          log, listed, gaveUp, config, calls, msg, body>>

\* Variables no step of a cycle touches except the ones named in the action.
session == <<mail, open>>
loopCounts == <<fetchedRun, sentRun, failedSend, delivered, log>>
\* The monitor's own state and bookkeeping.
monitorVars == <<pc, last_processed_id, ids, i, latest_id, runs, preMark,
                 fetchedRun, sentRun, failedSend, delivered, due, outcome,
                 failedAt, log, listed, gaveUp>>
\* What the monitor's cycles never write.
outside == <<config, calls, msg, body>>
frame == <<due, gaveUp, listed, outside>>

\* ------------------------------------------------------------------ Config
\* Config reads four environment variables with os.getenv; one that is not
\* set is None.  Nothing checks them before the monitor is built.
ConfigKeys == {"IMAP_HOST", "EMAIL_ACCOUNT", "EMAIL_PASSWORD", "WEBHOOK_URL"}

\* The environments considered: everything set, or exactly one variable unset.
Configs == {ConfigKeys} \cup {ConfigKeys \ {k} : k \in ConfigKeys}

\* ------------------------------------------------------------ EmailFetcher
\* connect(): IMAP4_SSL(host) may raise before self.mail is assigned
\* ("no_session"); login/select may raise after the new session is assigned
\* ("session_error"); otherwise the session is open and selected ("ok").
ConnectOutcomes == {"ok", "no_session", "session_error"}

\* login(None, password) and login(user, None) cannot succeed; IMAP4_SSL(None)
\* connects to the local host and may succeed.
connectOutcomes ==
    IF {"EMAIL_ACCOUNT", "EMAIL_PASSWORD"} \subseteq config
    THEN ConnectOutcomes
    ELSE ConnectOutcomes \ {"ok"}

connect(k) ==
    IF k = "no_session"
    THEN UNCHANGED session
    ELSE /\ mail' = "open"
         /\ open' = open + 1

\* logout(): if self.mail: self.mail.logout().  A failing LOGOUT command
\* raises before shutdown() closes the socket.
\* Whether logout() can return normally (TRUE) or raise (FALSE): self.mail is
\* never reset, so a logged-out session object gets LOGOUT sent on its closed
\* socket, which raises.
logoutOutcomes ==
    IF mail = "None" THEN {TRUE}
    ELSE IF mail = "open" THEN BOOLEAN
    ELSE {FALSE}

logout(ok) ==
    IF mail = "None"
    THEN UNCHANGED session
    ELSE IF ok
         THEN /\ mail' = "closed"
              /\ open' = IF mail = "open" THEN open - 1 ELSE open
         ELSE UNCHANGED session

\* An EmailFetcher driven directly: connect() in any session state.
FetcherConnect ==
    /\ Len(calls) < MaxCalls
    /\ \E k \in connectOutcomes :
        /\ connect(k)
        /\ calls' = Append(calls, [op |-> "connect", before |-> mail,
                                   result |-> k])
    /\ UNCHANGED <<monitorVars, config, msg, body>>

\* An EmailFetcher driven directly: logout() in any session state.
FetcherLogout ==
    /\ Len(calls) < MaxCalls
    /\ \E ok \in logoutOutcomes :
        /\ logout(ok)
        /\ calls' = Append(calls, [op |-> "logout", before |-> mail,
                                   result |-> IF mail = "None" THEN "noop"
                                              ELSE IF ok THEN "ok"
                                              ELSE "raised"])
    /\ UNCHANGED <<monitorVars, config, msg, body>>

\* ---------------------------------------------------------- EmailProcessor
\* A part carries its content type, its Content-Disposition header and its
\* payload bytes.  The header text is kept as its words, so that the test
\* '"attachment" in content_dispo' is a search for the word "attachment";
\* a part without the header gives str(None) = "None".
ContentTypes == {"text/plain", "text/html"}
Dispositions ==
    { <<"None">>,                               \* no header
      <<"inline">>,                             \* inline
      <<"attachment", "a.txt">>,                \* attachment; filename="a.txt"
      <<"inline", "attachment", ".txt">>,       \* inline; filename="attachment.txt"
      <<"ATTACHMENT", "a.txt">> }               \* ATTACHMENT; filename="a.txt"
\* Payload bytes; "BAD" is a byte sequence that is not valid UTF-8.
Payloads == { <<>>, <<"a">>, <<"b", "BAD">> }

Parts == [ctype : ContentTypes, dispo : Dispositions, payload : Payloads]

\* A parsed message: a single part, or a multipart/mixed container.
Messages ==
    [multipart : {FALSE}, parts : [1..1 -> Parts]]
    \cup [multipart : {TRUE},
          parts : UNION {[1..n -> Parts] : n \in 0..MaxParts}]

NoMessage == [multipart |-> FALSE, parts |-> <<>>]
NotExtracted == <<"none">>

\* bytes.decode(errors="ignore"): undecodable bytes are dropped.
RECURSIVE decode(_)
decode(b) ==
    IF b = <<>> THEN <<>>
    ELSE (IF Head(b) = "BAD" THEN <<>> ELSE <<Head(b)>>) \o decode(Tail(b))

\* "attachment" in content_dispo
containsAttachment(d) == \E k \in 1..Len(d) : d[k] = "attachment"

\* msg.walk(): the container itself, then its parts.
walk(m) ==
    <<[ctype |-> "multipart/mixed", dispo |-> <<"None">>, payload |-> <<>>]>>
    \o m.parts

\* The for loop over msg.walk() with its break; body stays "" without a match.
RECURSIVE firstBody(_)
firstBody(ps) ==
    IF ps = <<>> THEN <<>>
    ELSE IF Head(ps).ctype = "text/plain" /\ ~containsAttachment(Head(ps).dispo)
         THEN decode(Head(ps).payload)
         ELSE firstBody(Tail(ps))

extract_details(m) ==
    IF m.multipart
    THEN firstBody(walk(m))
    ELSE decode(m.parts[1].payload)

\* EmailProcessor.extract_details(msg) is called on the message at hand.
ExtractDetails ==
    /\ body = NotExtracted
    /\ msg # NoMessage
    /\ body' = extract_details(msg)
    /\ UNCHANGED <<monitorVars, session, config, calls, msg>>

\* ---------------------------------------------------- _initialize_last_id
\* except Exception as e: logging.error(...) -- the constructor returns.
InitExcept(op) ==
    /\ pc' = "idle"
    /\ outcome' = "logged"
    /\ failedAt' = op

InitConnect ==
    /\ pc = "init_connect"
    /\ \E k \in connectOutcomes :
        /\ connect(k)
        /\ IF k = "ok"
           THEN /\ pc' = "init_list"
                /\ UNCHANGED <<outcome, failedAt>>
           ELSE InitExcept("connect")
    /\ UNCHANGED <<last_processed_id, ids, i, latest_id, runs, preMark,
                   loopCounts, frame>>

\* Variant: takes the last listed id instead of the maximum.
InitListOk_lastElement ==
    /\ pc = "init_list"
    /\ \E r \in Listings :
        /\ ids' = r
        /\ listed' = listed \cup Range(r)
        /\ last_processed_id' = IF r # <<>> THEN r[Len(r)] ELSE last_processed_id
    /\ pc' = "init_logout"
    /\ UNCHANGED <<session, i, latest_id, runs, preMark, loopCounts, due, gaveUp, outside,
                   outcome, failedAt>>

InitListOk ==
    /\ pc = "init_list"
    /\ \E r \in Listings :
        /\ ids' = r
        /\ listed' = listed \cup Range(r)
        /\ last_processed_id' = IF r # <<>> THEN SeqMax(r) ELSE last_processed_id
    /\ pc' = "init_logout"
    /\ UNCHANGED <<session, i, latest_id, runs, preMark, loopCounts, due, gaveUp, outside,
                   outcome, failedAt>>

InitListFail ==
    /\ pc = "init_list"
    /\ InitExcept("list")
    /\ UNCHANGED <<last_processed_id, session, ids, i, latest_id, runs,
                   preMark, loopCounts, frame>>

\* Variant: a failing logout puts the mark back to 0.
InitLogout_resetOnFailure ==
    /\ pc = "init_logout"
    /\ \E ok \in logoutOutcomes :
        /\ logout(ok)
        /\ IF ok
           THEN /\ pc' = "idle"
                /\ outcome' = "ok"
                /\ failedAt' = "none"
                /\ UNCHANGED last_processed_id
           ELSE /\ InitExcept("logout")
                /\ last_processed_id' = 0
    /\ UNCHANGED <<ids, i, latest_id, runs, preMark, loopCounts, frame>>

InitLogout ==
    /\ pc = "init_logout"
    /\ \E ok \in logoutOutcomes :
        /\ logout(ok)
        /\ IF ok
           THEN /\ pc' = "idle"
                /\ outcome' = "ok"
                /\ failedAt' = "none"
           ELSE InitExcept("logout")
    /\ UNCHANGED <<last_processed_id, ids, i, latest_id, runs, preMark,
                   loopCounts, frame>>

\* -------------------------------------------------------------------- run
\* Variant: the handler catches only the mailbox errors, so an exception of
\* the HTTP call leaves run().
RunExcept_mailboxOnly(op) ==
    IF op = "send"
    THEN /\ pc' = "crashed"
         /\ outcome' = "raised"
         /\ failedAt' = op
    ELSE /\ pc' = "idle"
         /\ outcome' = "logged"
         /\ failedAt' = op

\* except Exception as e: logging.error(...) -- run() returns normally.
RunExcept(op) ==
    /\ pc' = "idle"
    /\ outcome' = "logged"
    /\ failedAt' = op

\* run() is called and performs self.fetcher.connect().
RunConnect ==
    /\ pc = "idle"
    /\ runs < MaxRuns
    /\ runs' = runs + 1
    /\ preMark' = last_processed_id
    /\ ids' = <<>>
    /\ i' = 0
    /\ latest_id' = 0
    /\ fetchedRun' = ZeroCount
    /\ sentRun' = ZeroCount
    /\ failedSend' = {}
    /\ log' = <<>>
    /\ \E k \in connectOutcomes :
        /\ connect(k)
        /\ IF k = "ok"
           THEN /\ pc' = "run_list"
                /\ outcome' = "none"
                /\ failedAt' = "none"
           ELSE RunExcept("connect")
    /\ UNCHANGED <<last_processed_id, delivered, frame>>

\* Variant: the loop is entered for every non-empty listing.
RunListOk_noMaxGuard ==
    /\ pc = "run_list"
    /\ \E r \in Listings :
        /\ ids' = r
        /\ listed' = listed \cup Range(r)
        /\ IF r # <<>>
           THEN /\ latest_id' = SeqMax(r)
                /\ pc' = "run_loop"
                /\ i' = 1
           ELSE /\ pc' = "run_logout"
                /\ UNCHANGED <<latest_id, i>>
    /\ UNCHANGED <<last_processed_id, session, runs, preMark, loopCounts,
                   due, gaveUp, outside, outcome, failedAt>>

\* ids = get_email_ids_since(...); if ids: latest_id = max(ids);
\* if latest_id > self.last_processed_id: enter the for loop.
RunListOk ==
    /\ pc = "run_list"
    /\ \E r \in Listings :
        /\ ids' = r
        /\ listed' = listed \cup Range(r)
        /\ IF r # <<>>
           THEN /\ latest_id' = SeqMax(r)
                /\ IF SeqMax(r) > last_processed_id
                   THEN /\ pc' = "run_loop"
                        /\ i' = 1
                   ELSE /\ pc' = "run_logout"
                        /\ i' = i
           ELSE /\ pc' = "run_logout"
                /\ UNCHANGED <<latest_id, i>>
    /\ UNCHANGED <<last_processed_id, session, runs, preMark, loopCounts, due, gaveUp, outside,
                   outcome, failedAt>>

RunListFail ==
    /\ pc = "run_list"
    /\ RunExcept("list")
    /\ UNCHANGED <<last_processed_id, session, ids, i, latest_id, runs,
                   preMark, loopCounts, frame>>

\* Variant: the loop walks the listing in ascending order (for eid in
\* sorted(ids)).
eid_sorted ==
    CHOOSE e \in Range(ids) : Cardinality({x \in Range(ids) : x < e}) = i - 1

\* for eid in ids: the element the loop is at.
eid == ids[i]

\* The filter of the for loop: if eid > self.last_processed_id.
qualifies_ge(e) == e >= last_processed_id

qualifies(e) == e > last_processed_id

\* for eid in ids: the filter is false -> next element.
RunSkip ==
    /\ pc = "run_loop"
    /\ i <= Len(ids)
    /\ ~qualifies(eid)
    /\ i' = i + 1
    /\ UNCHANGED <<pc, last_processed_id, session, ids, latest_id, runs,
                   preMark, loopCounts, frame, outcome, failedAt>>

\* msg = self.fetcher.fetch_email(eid)
RunFetchOk ==
    /\ pc = "run_loop"
    /\ i <= Len(ids)
    /\ qualifies(eid)
    /\ fetchedRun' = [fetchedRun EXCEPT ![eid] = @ + 1]
    /\ log' = Append(log, <<"fetch", eid>>)
    /\ pc' = "run_send"
    /\ UNCHANGED <<last_processed_id, session, ids, i, latest_id, runs,
                   preMark, sentRun, failedSend, delivered, frame, outcome,
                   failedAt>>

\* Variant: a failed fetch is logged per message and the loop goes on.
RunFetchFail_swallow ==
    /\ pc = "run_loop"
    /\ i <= Len(ids)
    /\ qualifies(eid)
    /\ fetchedRun' = [fetchedRun EXCEPT ![eid] = @ + 1]
    /\ log' = Append(log, <<"fetch", eid>>)
    /\ i' = i + 1
    /\ UNCHANGED <<pc, last_processed_id, session, ids, latest_id, runs,
                   preMark, sentRun, failedSend, delivered, frame, outcome,
                   failedAt>>

\* Variant: a failed fetch commits the ids delivered so far in this run.
RunFetchFail_commitProgress ==
    /\ pc = "run_loop"
    /\ i <= Len(ids)
    /\ qualifies(eid)
    /\ fetchedRun' = [fetchedRun EXCEPT ![eid] = @ + 1]
    /\ log' = Append(log, <<"fetch", eid>>)
    /\ last_processed_id' =
          IF i > 1 /\ sentRun[ids[i - 1]] > 0 /\ ids[i - 1] > last_processed_id
          THEN ids[i - 1] ELSE last_processed_id
    /\ RunExcept("fetch")
    /\ UNCHANGED <<session, ids, i, latest_id, runs, preMark, sentRun,
                   failedSend, delivered, frame>>

RunFetchFail ==
    /\ pc = "run_loop"
    /\ i <= Len(ids)
    /\ qualifies(eid)
    /\ fetchedRun' = [fetchedRun EXCEPT ![eid] = @ + 1]
    /\ log' = Append(log, <<"fetch", eid>>)
    /\ RunExcept("fetch")
    /\ UNCHANGED <<last_processed_id, session, ids, i, latest_id, runs,
                   preMark, sentRun, failedSend, delivered, frame>>

\* Variant: a send that returns False leaves the for loop (break).
RunSend_breakOnFailure ==
    /\ pc = "run_send"
    /\ "WEBHOOK_URL" \in config
    /\ \E success \in BOOLEAN :
        /\ failedSend' = IF success THEN failedSend ELSE failedSend \cup {eid}
        /\ i' = IF success THEN i + 1 ELSE Len(ids) + 1
    /\ sentRun' = [sentRun EXCEPT ![eid] = @ + 1]
    /\ log' = Append(log, <<"send", eid>>)
    /\ delivered' = [delivered EXCEPT ![eid] = @ + 1]
    /\ pc' = "run_loop"
    /\ UNCHANGED <<last_processed_id, session, ids, latest_id, runs, preMark,
                   fetchedRun, frame, outcome, failedAt>>

\* Variant: the mark is moved to each id right after its send.
RunSend_commitEach ==
    /\ pc = "run_send"
    /\ "WEBHOOK_URL" \in config
    /\ \E success \in BOOLEAN :
        failedSend' = IF success THEN failedSend ELSE failedSend \cup {eid}
    /\ sentRun' = [sentRun EXCEPT ![eid] = @ + 1]
    /\ log' = Append(log, <<"send", eid>>)
    /\ delivered' = [delivered EXCEPT ![eid] = @ + 1]
    /\ last_processed_id' = eid
    /\ i' = i + 1
    /\ pc' = "run_loop"
    /\ UNCHANGED <<session, ids, latest_id, runs, preMark, fetchedRun, frame,
                   outcome, failedAt>>

\* data = extract_details(msg); success = self.sender.send(data): the webhook
\* answers 200 (True) or another status (False); both are only logged.
RunSend ==
    /\ pc = "run_send"
    /\ "WEBHOOK_URL" \in config
    /\ \E success \in BOOLEAN :
        failedSend' = IF success THEN failedSend ELSE failedSend \cup {eid}
    /\ sentRun' = [sentRun EXCEPT ![eid] = @ + 1]
    /\ log' = Append(log, <<"send", eid>>)
    /\ delivered' = [delivered EXCEPT ![eid] = @ + 1]
    /\ i' = i + 1
    /\ pc' = "run_loop"
    /\ UNCHANGED <<last_processed_id, session, ids, latest_id, runs, preMark,
                   fetchedRun, frame, outcome, failedAt>>

\* requests.post raises inside send() (always when the URL is None): the
\* exception leaves the for loop.
RunSendRaise ==
    /\ pc = "run_send"
    /\ sentRun' = [sentRun EXCEPT ![eid] = @ + 1]
    /\ log' = Append(log, <<"send", eid>>)
    /\ RunExcept("send")
    /\ UNCHANGED <<last_processed_id, session, ids, i, latest_id, runs,
                   preMark, fetchedRun, failedSend, delivered, frame>>

\* Variant: the mark moves to the largest id whose send returned True.
RunAdvance_maxDelivered ==
    /\ pc = "run_loop"
    /\ i > Len(ids)
    /\ LET okIds == {e \in Range(ids) : sentRun[e] > 0 /\ e \notin failedSend}
       IN last_processed_id' =
            IF okIds = {} THEN last_processed_id
            ELSE CHOOSE m \in okIds : \A e \in okIds : e <= m
    /\ due' = due \cup {e \in Range(ids) : e > preMark}
    /\ gaveUp' = gaveUp \cup failedSend
    /\ pc' = "run_logout"
    /\ UNCHANGED <<outside, listed, session, ids, i, latest_id, runs, preMark, loopCounts,
                   outcome, failedAt>>

\* Variant: the mark becomes the number of listed ids.
RunAdvance_count ==
    /\ pc = "run_loop"
    /\ i > Len(ids)
    /\ last_processed_id' = Len(ids)
    /\ due' = due \cup {e \in Range(ids) : e > preMark}
    /\ gaveUp' = gaveUp \cup failedSend
    /\ pc' = "run_logout"
    /\ UNCHANGED <<outside, listed, session, ids, i, latest_id, runs, preMark,
                   loopCounts, outcome, failedAt>>

\* The for loop is exhausted: self.last_processed_id = latest_id.
RunAdvance ==
    /\ pc = "run_loop"
    /\ i > Len(ids)
    /\ last_processed_id' = latest_id
    /\ due' = due \cup {e \in Range(ids) : e > preMark}
    /\ gaveUp' = gaveUp \cup failedSend
    /\ pc' = "run_logout"
    /\ UNCHANGED <<outside, listed, session, ids, i, latest_id, runs, preMark, loopCounts,
                   outcome, failedAt>>

\* self.fetcher.logout() at the end of the try block.
RunLogout ==
    /\ pc = "run_logout"
    /\ \E ok \in logoutOutcomes :
        /\ logout(ok)
        /\ IF ok
           THEN /\ pc' = "idle"
                /\ outcome' = "ok"
                /\ failedAt' = "none"
           ELSE RunExcept("logout")
    /\ UNCHANGED <<last_processed_id, ids, i, latest_id, runs, preMark,
                   loopCounts, frame>>

\* ------------------------------------------------------------ specification
\* EmailMonitor.__init__ up to the call of _initialize_last_id().
MonitorInit ==
    /\ pc = "init_connect"
    /\ last_processed_id = 0
    /\ mail = "None"
    /\ open = 0
    /\ ids = <<>>
    /\ i = 0
    /\ latest_id = 0
    /\ runs = 0
    /\ preMark = 0
    /\ fetchedRun = ZeroCount
    /\ sentRun = ZeroCount
    /\ failedSend = {}
    /\ delivered = ZeroCount
    /\ due = {}
    /\ outcome = "none"
    /\ failedAt = "none"
    /\ log = <<>>
    /\ listed = {}
    /\ gaveUp = {}

\* The program as it is meant to be started: every Config value set.
Init ==
    /\ MonitorInit
    /\ config = ConfigKeys
    /\ calls = <<>>
    /\ msg = NoMessage
    /\ body = NotExtracted

Next ==
    \/ InitConnect
    \/ InitListOk
    \/ InitListFail
    \/ InitLogout
    \/ RunConnect
    \/ RunListOk
    \/ RunListFail
    \/ RunSkip
    \/ RunFetchOk
    \/ RunFetchFail
    \/ RunSend
    \/ RunSendRaise
    \/ RunAdvance
    \/ RunLogout

Spec == Init /\ [][Next]_vars

\* The program started in any of the environments of Configs.
InitConfig ==
    /\ MonitorInit
    /\ config \in Configs
    /\ calls = <<>>
    /\ msg = NoMessage
    /\ body = NotExtracted

SpecConfig == InitConfig /\ [][Next]_vars

\* An EmailFetcher on its own, called in any order.
FetcherNext ==
    \/ FetcherConnect
    \/ FetcherLogout

SpecFetcher == Init /\ [][FetcherNext]_vars

\* extract_details applied to any message of Messages.
InitExtract ==
    /\ MonitorInit
    /\ config = ConfigKeys
    /\ calls = <<>>
    /\ msg \in Messages
    /\ body = NotExtracted

ExtractNext == ExtractDetails

SpecExtract == InitExtract /\ [][ExtractNext]_vars

TypeOK ==
    /\ pc \in {"init_connect", "init_list", "init_logout", "idle", "run_list",
               "run_loop", "run_send", "run_logout", "crashed"}
    /\ last_processed_id \in 0..MaxId
    /\ mail \in {"None", "open", "closed"}
    /\ open \in 0..(MaxRuns + 1)
    /\ ids \in Listings
    /\ runs \in 0..MaxRuns
    /\ outcome \in {"none", "ok", "logged", "raised"}

\* ------------------------------------------------------------ properties
\* An observation point: construction or a run() call has returned.
AtRest == pc = "idle"
AfterRun == pc = "idle" /\ runs > 0

\* m is the largest element of the listing s.
IsMaxOf(m, s) == m \in Range(s) /\ \A e \in Range(s) : e <= m

\* The ids of the current listing above the mark the run() started with.
Batch == {e \in Range(ids) : e > preMark}

\* C1: across any sequence of run() calls, failed ones included, each message
\* id is forwarded to the webhook at most once.
C1_AtMostOnce == \A e \in Ids : delivered[e] <= 1

C3_OnlyAboveMark ==
    \A e \in Ids : (fetchedRun[e] > 0 \/ sentRun[e] > 0) => e > preMark

C3_Witness ==
    /\ AfterRun
    /\ preMark > 0
    /\ \E e \in Range(ids) : e = preMark
    /\ \E e \in Range(ids) : e < preMark
    /\ \E e \in Ids : sentRun[e] > 0

\* C4 (as stated): after a run() in which nothing raised and the listing was
\* non-empty, last_processed_id is the maximum of the listing.
C4_MarkIsListedMax ==
    (AfterRun /\ outcome = "ok" /\ ids # <<>>) =>
        IsMaxOf(last_processed_id, ids)

\* C4 (amended): after a run() in which nothing raised and the listing was
\* non-empty with maximum M, last_processed_id is M when M exceeds the mark
\* the call started with and is that mark otherwise, however many sends
\* returned failure.
C4_MarkIsListedMaxIfAbove ==
    (AfterRun /\ outcome = "ok" /\ ids # <<>>) =>
        \E M \in Range(ids) :
            /\ IsMaxOf(M, ids)
            /\ last_processed_id = IF M > preMark THEN M ELSE preMark

C4_Witness ==
    /\ AfterRun
    /\ outcome = "ok"
    /\ Cardinality(failedSend) >= 2
    /\ IsMaxOf(last_processed_id, ids)
    /\ last_processed_id > preMark

\* C5: last_processed_id never decreases, and a run() changes it only once
\* every id of the batch has been delivered, never between two deliveries.
C5_MonotoneAndAfterLoop ==
    [][/\ last_processed_id' >= last_processed_id
       /\ (last_processed_id' # last_processed_id /\ runs > 0) =>
            /\ pc' = "run_logout"
            /\ \A e \in Batch : sentRun[e] = 1]_vars

C5_Witness ==
    /\ pc = "run_logout"
    /\ last_processed_id > preMark
    /\ preMark > 0
    /\ Cardinality(Batch) >= 2

\* C6: a run() that fails in connect, in the listing or in a fetch, at any
\* position of the batch, leaves last_processed_id as it was before the call.
C6_FailureKeepsMark ==
    (AfterRun /\ failedAt \in {"connect", "list", "fetch"}) =>
        last_processed_id = preMark

C6_Witness ==
    /\ AfterRun
    /\ failedAt = "fetch"
    /\ \E e \in Ids : sentRun[e] > 0

\* C7: when the HTTP call raises while one message is sent, the other ids of
\* the batch are still fetched and sent and last_processed_id ends at the
\* listed maximum.
C7_SendRaiseIsPerMessage ==
    (AfterRun /\ failedAt = "send") =>
        /\ IsMaxOf(last_processed_id, ids)
        /\ \A e \in Batch : fetchedRun[e] = 1 /\ sentRun[e] = 1

\* C8: in a run() in which nothing raised, every listed id above the starting
\* mark is fetched and sent exactly once, whatever the order of the listing
\* and whichever earlier sends returned failure.
C8_BatchSentOnce ==
    (AfterRun /\ outcome = "ok") =>
        \A e \in Batch : fetchedRun[e] = 1 /\ sentRun[e] = 1

C8_Witness ==
    /\ AfterRun
    /\ outcome = "ok"
    /\ \E a, b \in 1..Len(ids) :
        /\ a < b
        /\ ids[a] > ids[b]
        /\ ids[b] > preMark
        /\ ids[a] \in failedSend
        /\ ids[b] \notin failedSend

\* C9: no failure of connect, list, fetch, send or logout leaves construction
\* or run(): the cycle ends logged, the call returns and run() can be called
\* again.
C9_FailuresAreLogged ==
    /\ pc # "crashed"
    /\ outcome # "raised"
    /\ failedAt # "none" => (pc = "idle" /\ outcome = "logged")
    /\ (failedAt # "none" /\ runs < MaxRuns) => ENABLED RunConnect

\* A run() is under way although an earlier cycle failed with its session open.
C9_Witness ==
    /\ pc = "run_list"
    /\ runs > 0
    /\ open >= 2

\* C10: when initialization succeeds, last_processed_id is the maximum of the
\* listed ids, in whatever order they were listed, and 0 for an empty listing.
C10_InitMarkIsMax ==
    (AtRest /\ runs = 0 /\ outcome = "ok") =>
        IF ids = <<>> THEN last_processed_id = 0
        ELSE IsMaxOf(last_processed_id, ids)

C10_Witness ==
    /\ AtRest
    /\ runs = 0
    /\ outcome = "ok"
    /\ Len(ids) = 3
    /\ ids[2] = last_processed_id
    /\ last_processed_id # Len(ids)

\* C11 (as stated): whichever step of initialization fails (connect, listing
\* or logout), the monitor is Ready with last_processed_id = 0.
C11_InitFailureLeavesZero ==
    (AtRest /\ runs = 0 /\ failedAt # "none") => last_processed_id = 0

\* C11 (amended): a failure of initialization is swallowed and the monitor is
\* Ready; last_processed_id is 0 when connect or the listing failed, and the
\* maximum of the listed ids (0 for an empty listing) when only logout failed.
C11_InitFailureKeepsListing ==
    (runs = 0 /\ failedAt # "none") =>
        /\ pc = "idle"
        /\ outcome = "logged"
        /\ IF failedAt = "logout"
           THEN IF ids = <<>> THEN last_processed_id = 0
                ELSE IsMaxOf(last_processed_id, ids)
           ELSE failedAt \in {"connect", "list"} /\ last_processed_id = 0

C11_Witness ==
    /\ AtRest
    /\ runs = 0
    /\ failedAt = "logout"
    /\ Len(ids) >= 2
    /\ last_processed_id > 0

\* Some mailbox call has been made: every step out of the constructor's first
\* position is a connect().
NetworkUsed == pc # "init_connect"

\* C12: when a required configuration value is absent the program stops
\* before any network activity: no connect, list, fetch or send is performed.
C12_NoNetworkWithoutConfig == config # ConfigKeys => ~NetworkUsed

\* C13: the session acquired at the start of a cycle is released before the
\* cycle returns, also when listing, fetching or sending ends it with an error.
C13_SessionReleasedAtReturn ==
    (AtRest /\ failedAt \in {"none", "list", "fetch", "send"}) => open = 0

\* C14: when the listing of a run() is empty or has no id above
\* last_processed_id, the run() fetches nothing, sends nothing and leaves
\* last_processed_id unchanged.
C14_NothingNewNothingDone ==
    (/\ runs > 0
     /\ pc \in {"run_logout", "idle"}
     /\ failedAt \notin {"connect", "list"}
     /\ \A e \in Range(ids) : e <= preMark) =>
        /\ log = <<>>
        /\ \A e \in Ids : fetchedRun[e] = 0 /\ sentRun[e] = 0
        /\ last_processed_id = preMark

C14_Witness ==
    /\ AfterRun
    /\ outcome = "ok"
    /\ Len(ids) >= 2
    /\ \A e \in Range(ids) : e <= preMark
    /\ \E e \in Range(ids) : e < preMark

\* C15: an id whose send returned failure in a run() that then committed is
\* never fetched or sent by a later run().
C15_FailedNeverRetried ==
    [][\A e \in gaveUp :
          /\ fetchedRun'[e] <= fetchedRun[e]
          /\ sentRun'[e] <= sentRun[e]]_vars

C15_Witness ==
    /\ AfterRun
    /\ runs >= 2
    /\ outcome = "ok"
    /\ \E e \in gaveUp \cap Range(ids) : fetchedRun[e] = 0
    /\ \E e \in Ids : sentRun[e] > 0

\* The calls a run() over listing s makes: fetch then send of each id above
\* the starting mark, in the order of s.
RECURSIVE Expected(_)
Expected(s) ==
    IF s = <<>> THEN <<>>
    ELSE (IF Head(s) > preMark
          THEN << <<"fetch", Head(s)>>, <<"send", Head(s)>> >>
          ELSE <<>>) \o Expected(Tail(s))

IsPrefix(a, b) == Len(a) <= Len(b) /\ SubSeq(b, 1, Len(a)) = a

\* C18: within a run() the qualifying ids are fetched and sent in the order of
\* the listing, and fetch and send of one id are done before the next fetch.
C18_ListingOrder ==
    /\ IsPrefix(log, Expected(ids))
    /\ (AfterRun /\ outcome = "ok") => log = Expected(ids)

C18_Witness ==
    /\ AfterRun
    /\ outcome = "ok"
    /\ Len(log) = 6
    /\ log[1][2] > log[3][2]
    /\ log[3][2] < log[5][2]

\* C19: connect is never performed while a session opened by an earlier cycle
\* is still unreleased.
C19_ConnectOnlyWhenReleased ==
    [][(pc \in {"init_connect", "idle"} /\ open' > open) => open = 0]_vars

\* C20: last_processed_id is 0 or an id some listing returned, and a run()
\* changes it at most once (only away from the value the call started with).
C20_MarkFromListing ==
    /\ [](last_processed_id = 0 \/ last_processed_id \in listed)
    /\ [][(last_processed_id' # last_processed_id /\ runs > 0) =>
            last_processed_id = preMark]_vars

C20_Witness ==
    /\ pc = "run_logout"
    /\ runs = 2
    /\ preMark > 0
    /\ last_processed_id > preMark
    /\ Len(ids) # last_processed_id

\* C16: logout() is a no-op whenever the fetcher holds no open session: when
\* never connected, and when called again after a logout that succeeded.
C16_LogoutIdempotent ==
    \A k \in 1..Len(calls) :
        (calls[k].op = "logout" /\ calls[k].before # "open") =>
            calls[k].result = "noop"

\* The disposition type (first word of the header, case-insensitive) is
\* "attachment".
MarksAttachment(d) == d[1] \in {"attachment", "ATTACHMENT"}

\* The body the rule selects: the first text/plain part that is not an
\* attachment, decoded; "" when there is none; the payload of a single part.
RECURSIVE RuleBody(_)
RuleBody(ps) ==
    IF ps = <<>> THEN <<>>
    ELSE IF Head(ps).ctype = "text/plain" /\ ~MarksAttachment(Head(ps).dispo)
         THEN decode(Head(ps).payload)
         ELSE RuleBody(Tail(ps))

\* C17: extract_details returns, for a multi-part message, the decoded payload
\* of the first text/plain part whose disposition is not attachment ("" when
\* no part qualifies) and, for a single-part message, its decoded payload.
C17_BodyIsFirstPlainNonAttachment ==
    body # NotExtracted =>
        body = IF msg.multipart THEN RuleBody(msg.parts)
               ELSE decode(msg.parts[1].payload)
====
